---- MODULE Spec2Model ----
(***************************************************************************)
(* Model of src/core.c: retro_load_game, the game-load entry point of a    *)
(* libretro-style emulator core.                                           *)
(*                                                                         *)
(* The function is modelled statement by statement (pc is the position in  *)
(* the function body), together with the two things it touches and does    *)
(* not own: the caller's game descriptions (heap) and the external routine *)
(* load_rom, whose outcome is decided by the storage (disk) and whose own  *)
(* effect is the loaded ROM (rom).                                         *)
(***************************************************************************)
EXTENDS Naturals, Sequences, FiniteSets

\* Number of game-description objects the caller can hold at once.
NumGames == 2

\* The null pointer, and the addresses of the caller's game descriptions.
NULL == 0
GameIds == 1..NumGames
Pointers == {NULL} \cup GameIds

\* How many load_rom invocations of one call a retrying variant logs.
MaxLogged == 2

\* ROM paths on the storage.
Paths == {"a.rom", "b.rom"}
NoPath == "none"

\* A game description: the path, and the rest of the structure, which the
\* function never looks at (other stands for every field but path).
GameInfo == [path : Paths, other : BOOLEAN]
NoGame == [path |-> NoPath, other |-> FALSE]

VARIABLES
    heap,      \* GameIds -> GameInfo or NoGame: the caller's descriptions
    disk,      \* Paths -> BOOLEAN: whether load_rom succeeds on the path
    rom,       \* the path load_rom last loaded, the state load_rom owns
    pc,        \* position in retro_load_game: idle, L6, L10, L27, done
    arg,       \* the parameter game of the call in progress
    result,    \* the value returned by the call in progress, valid at done
    loadLog,   \* the load_rom invocations of the call in progress
    pathReads, \* how many times the call in progress read game->path
    called,    \* the inputs called since they or their load outcome changed
    first      \* Pointers -> BOOLEAN: for an input in called, the result of
               \* the first of those calls

vars == <<heap, disk, rom, pc, arg, result, loadLog, pathReads, called, first>>

\* The variables of the call in progress, as they are between calls.
CallVarsReset ==
    /\ arg' = NULL
    /\ result' = FALSE
    /\ loadLog' = <<>>
    /\ pathReads' = 0

TypeOK ==
    /\ heap \in [GameIds -> GameInfo \cup {NoGame}]
    /\ disk \in [Paths -> BOOLEAN]
    /\ rom \in Paths \cup {NoPath}
    /\ pc \in {"idle", "L6", "L10", "L27", "done"}
    /\ arg \in Pointers
    /\ result \in BOOLEAN
    /\ loadLog \in Seq([path : Paths, ret : BOOLEAN])
    /\ pathReads \in Nat
    /\ called \subseteq Pointers
    /\ first \in [Pointers -> BOOLEAN]

Init ==
    /\ heap = [g \in GameIds |-> NoGame]
    /\ disk \in [Paths -> BOOLEAN]
    /\ rom = NoPath
    /\ pc = "idle"
    /\ arg = NULL
    /\ result = FALSE
    /\ loadLog = <<>>
    /\ pathReads = 0
    /\ called = {}
    /\ first = [p \in Pointers |-> FALSE]

----------------------------------------------------------------------------
\* The environment of the function: the caller and the storage.

\* Forget the recorded first result of every input in the set.
Forget(inputs) ==
    /\ called' = called \ inputs
    /\ first' = [p \in Pointers |-> IF p \in inputs THEN FALSE ELSE first[p]]

\* The caller builds a game description.
CallerAlloc ==
    /\ pc = "idle"
    /\ \E g \in GameIds, info \in GameInfo :
          /\ heap[g] = NoGame
          /\ heap' = [heap EXCEPT ![g] = info]
          /\ Forget({g})
    /\ UNCHANGED <<disk, rom, pc, arg, result, loadLog, pathReads>>

\* The caller releases a game description.
CallerFree ==
    /\ pc = "idle"
    /\ \E g \in GameIds :
          /\ heap[g] # NoGame
          /\ heap' = [heap EXCEPT ![g] = NoGame]
          /\ Forget({g})
    /\ UNCHANGED <<disk, rom, pc, arg, result, loadLog, pathReads>>

\* A ROM file appears on the storage or disappears from it: load_rom now
\* answers differently for that path.
StorageChange ==
    /\ pc = "idle"
    /\ \E p \in Paths :
          /\ disk' = [disk EXCEPT ![p] = ~disk[p]]
          /\ Forget({g \in GameIds : heap[g].path = p})
    /\ UNCHANGED <<heap, rom, pc, arg, result, loadLog, pathReads>>

\* The external routine: its answer for a path.
load_rom(path) == disk[path]

\* The external routine: the ROM it leaves loaded.
RomAfterLoad(path) == IF load_rom(path) THEN path ELSE rom

----------------------------------------------------------------------------
\* retro_load_game

\* The host calls retro_load_game(game) with null or a live description.
Call ==
    /\ pc = "idle"
    /\ \E game \in Pointers :
          /\ game # NULL => heap[game] # NoGame
          /\ arg' = game
    /\ pc' = "L6"
    /\ UNCHANGED <<heap, disk, rom, result, loadLog, pathReads, called, first>>

\* Variant of NullCheck: game->path is fetched before game is tested.
NullCheckReadsFirst ==
    /\ pc = "L6"
    /\ pathReads' = pathReads + 1
    /\ IF arg = NULL
          THEN /\ result' = FALSE
               /\ pc' = "done"
          ELSE /\ result' = result
               /\ pc' = "L10"
    /\ UNCHANGED <<heap, disk, rom, arg, loadLog, called, first>>

\* Variant of NullCheck: once a ROM is loaded, a call on a non-null game
\* reports success without loading again.
NullCheckLatched ==
    /\ pc = "L6"
    /\ IF arg = NULL
          THEN /\ result' = FALSE
               /\ pc' = "done"
          ELSE /\ result' = result
               /\ pc' = IF rom # NoPath THEN "L27" ELSE "L10"
    /\ UNCHANGED <<heap, disk, rom, arg, loadLog, pathReads, called, first>>

\* Variant of NullCheck: a description whose other fields are unset is
\* rejected like a null one.
NullCheckOther ==
    /\ pc = "L6"
    /\ IF arg = NULL \/ ~heap[arg].other
          THEN /\ result' = FALSE
               /\ pc' = "done"
          ELSE /\ result' = result
               /\ pc' = "L10"
    /\ UNCHANGED <<heap, disk, rom, arg, loadLog, pathReads, called, first>>

\* if (!game) return false;
NullCheck ==
    /\ pc = "L6"
    /\ IF arg = NULL
          THEN /\ result' = FALSE
               /\ pc' = "done"
          ELSE /\ result' = result
               /\ pc' = "L10"
    /\ UNCHANGED <<heap, disk, rom, arg, loadLog, pathReads, called, first>>

\* Variant of LoadRom: the negation is lost, if (load_rom(game->path)).
LoadRomInverted ==
    /\ pc = "L10"
    /\ LET path == heap[arg].path
           ret == load_rom(path)
       IN  /\ pathReads' = pathReads + 1
           /\ loadLog' = Append(loadLog, [path |-> path, ret |-> ret])
           /\ rom' = RomAfterLoad(path)
           /\ IF ret
                 THEN /\ result' = FALSE
                      /\ pc' = "done"
                 ELSE /\ result' = result
                      /\ pc' = "L27"
    /\ UNCHANGED <<heap, disk, arg, called, first>>

\* Variant of LoadRom: the ROM that is already loaded is refused.
LoadRomOnce ==
    /\ pc = "L10"
    /\ LET path == heap[arg].path
           ret == load_rom(path)
       IN  /\ pathReads' = pathReads + 1
           /\ loadLog' = Append(loadLog, [path |-> path, ret |-> ret])
           /\ rom' = RomAfterLoad(path)
           /\ IF ~ret \/ rom = path
                 THEN /\ result' = FALSE
                      /\ pc' = "done"
                 ELSE /\ result' = result
                      /\ pc' = "L27"
    /\ UNCHANGED <<heap, disk, arg, called, first>>

\* Variant of LoadRom: while (!load_rom(game->path)) ; a failed load is
\* tried again (the log keeps the first MaxLogged invocations).
LoadRomRetry ==
    /\ pc = "L10"
    /\ LET path == heap[arg].path
           ret == load_rom(path)
       IN  /\ pathReads' = IF Len(loadLog) < MaxLogged THEN pathReads + 1 ELSE pathReads
           /\ loadLog' = IF Len(loadLog) < MaxLogged
                            THEN Append(loadLog, [path |-> path, ret |-> ret])
                            ELSE loadLog
           /\ rom' = RomAfterLoad(path)
           /\ result' = result
           /\ pc' = IF ~ret THEN "L10" ELSE "L27"
    /\ UNCHANGED <<heap, disk, arg, called, first>>

\* if (!load_rom(game->path)) return false;
LoadRom ==
    /\ pc = "L10"
    /\ LET path == heap[arg].path
           ret == load_rom(path)
       IN  /\ pathReads' = pathReads + 1
           /\ loadLog' = Append(loadLog, [path |-> path, ret |-> ret])
           /\ rom' = RomAfterLoad(path)
           /\ IF ~ret
                 THEN /\ result' = FALSE
                      /\ pc' = "done"
                 ELSE /\ result' = result
                      /\ pc' = "L27"
    /\ UNCHANGED <<heap, disk, arg, called, first>>

\* Variant of ReturnTrue: the description is released on success.
ReturnTrueFrees ==
    /\ pc = "L27"
    /\ result' = TRUE
    /\ pc' = "done"
    /\ heap' = [heap EXCEPT ![arg] = NoGame]
    /\ UNCHANGED <<disk, rom, arg, loadLog, pathReads, called, first>>

\* Variant of ReturnTrue: the stub's last statement is return false.
ReturnTrueReturnsFalse ==
    /\ pc = "L27"
    /\ result' = FALSE
    /\ pc' = "done"
    /\ UNCHANGED <<heap, disk, rom, arg, loadLog, pathReads, called, first>>

\* return true;
ReturnTrue ==
    /\ pc = "L27"
    /\ result' = TRUE
    /\ pc' = "done"
    /\ UNCHANGED <<heap, disk, rom, arg, loadLog, pathReads, called, first>>

\* Control is back in the caller, which takes the returned value.
Return ==
    /\ pc = "done"
    /\ pc' = "idle"
    /\ called' = called \cup {arg}
    /\ first' = IF arg \in called THEN first ELSE [first EXCEPT ![arg] = result]
    /\ CallVarsReset
    /\ UNCHANGED <<heap, disk, rom>>

Next ==
    \/ CallerAlloc
    \/ CallerFree
    \/ StorageChange
    \/ Call
    \/ NullCheck
    \/ LoadRom
    \/ ReturnTrue
    \/ Return

Spec == Init /\ [][Next]_vars

\* The function's own statements run to completion once it is called: the
\* host's thread executes them one after the other, and the delegated
\* load_rom call is assumed to return.
FairSpec ==
    /\ Spec
    /\ WF_vars(NullCheck)
    /\ WF_vars(LoadRom)
    /\ WF_vars(ReturnTrue)

----------------------------------------------------------------------------
\* Properties

\* The call in progress invoked load_rom and its last invocation, on the
\* game's path, answered true.
LoadSucceeded ==
    /\ loadLog # <<>>
    /\ loadLog[Len(loadLog)].path = heap[arg].path
    /\ loadLog[Len(loadLog)].ret

\* The call in progress invoked load_rom and its last invocation failed.
LoadFailed ==
    /\ loadLog # <<>>
    /\ ~loadLog[Len(loadLog)].ret

\* C1: a call returns true if and only if game is non-null and
\* load_rom(game->path) returned true.
C1_TrueIffNonNullAndLoaded ==
    pc = "done" => (result <=> (arg # NULL /\ LoadSucceeded))

\* A call on a non-null game whose load succeeded has returned true.
C1_Witness ==
    pc = "done" /\ arg # NULL /\ LoadSucceeded /\ result

\* C2: a call with a null game returns false at once: from the null check
\* it goes straight to the return of false, load_rom is not invoked and
\* game->path is not read.
C2_NullFailsImmediately ==
    (pc # "idle" /\ arg = NULL) =>
        /\ pc \in {"L6", "done"}
        /\ loadLog = <<>>
        /\ pathReads = 0
        /\ (pc = "done" => ~result)

\* A call with a null game has returned.
C2_Witness ==
    pc = "done" /\ arg = NULL /\ ~result

\* C3: with a deterministic load_rom (the input and the load outcome of
\* its path unchanged since the first call), every repeated call returns
\* what the first call on the same input returned.
C3_RepeatedCallSameResult ==
    (pc = "done" /\ arg \in called) => result = first[arg]

\* A repeated call on a non-null game has returned, after a ROM had been
\* loaded by an earlier call.
C3_Witness ==
    pc = "done" /\ arg \in called /\ arg # NULL /\ result /\ first[arg]

\* C4: no step of a call changes the game descriptions (content or
\* allocation) or the storage, and no step but the load_rom invocation
\* changes the loaded ROM.
C4_CallMutatesNothing ==
    [][(pc # "idle" \/ pc' # "idle") =>
          /\ heap' = heap
          /\ disk' = disk
          /\ (pc # "L10" => rom' = rom)]_vars

\* A successful call has returned and the description it was given is
\* still allocated, with the path that was loaded.
C4_Witness ==
    pc = "done" /\ arg # NULL /\ result /\ heap[arg] \in GameInfo
        /\ rom = heap[arg].path

\* C5: a call ends with a boolean and in no error state; false arises only
\* from a null game or a failed load.
C5_TwoOutcomes ==
    /\ pc \in {"idle", "L6", "L10", "L27", "done"}
    /\ pc = "done" =>
          /\ result \in BOOLEAN
          /\ (~result => (arg = NULL \/ LoadFailed))
          /\ (result => (arg # NULL /\ ~LoadFailed))

\* A call on a non-null game has returned false after a failed load.
C5_Witness ==
    pc = "done" /\ ~result /\ arg # NULL /\ LoadFailed

\* C6: a call on a non-null game invokes load_rom exactly once, on the
\* game's path, after the null check and before it returns; a failed load
\* is not retried and the call returns false.
C6_LoadInvokedOnce ==
    /\ pc \in {"L6", "L10"} => loadLog = <<>>
    /\ (pc \in {"L27", "done"} /\ arg # NULL) =>
          /\ Len(loadLog) = 1
          /\ loadLog[1].path = heap[arg].path
          /\ pathReads = 1
          /\ (pc = "L27" => loadLog[1].ret)
          /\ (pc = "done" => result = loadLog[1].ret)

\* A call on a non-null game has returned false after its one load failed.
C6_Witness ==
    pc = "done" /\ arg # NULL /\ Len(loadLog) = 1 /\ ~loadLog[1].ret
        /\ ~result

\* C7: every call returns: once entered, the function reaches its return.
C7_CallTerminates ==
    (pc = "L6") ~> (pc = "done")

\* A call that went through load_rom has returned.
C7_Witness ==
    pc = "done" /\ Len(loadLog) = 1

\* C8: whatever calls came before, a call on a non-null game returns what
\* load_rom answers for its path now.
C8_NoLatchedState ==
    (pc = "done" /\ arg # NULL) => (result <=> load_rom(heap[arg].path))

\* A call has returned true after an earlier call with null and an earlier
\* call on another game whose load failed.
C8_Witness ==
    /\ pc = "done" /\ arg # NULL /\ result
    /\ NULL \in called
    /\ \E g \in called \ {NULL, arg} : ~first[g]

\* A call has returned false although an earlier call loaded a ROM.
C8_WitnessFailAfterSuccess ==
    pc = "done" /\ arg # NULL /\ ~result /\ rom # NoPath

\* C9: two non-null descriptions with the same path get the same result,
\* whatever their other fields hold.
C9_DependsOnPathOnly ==
    (pc = "done" /\ arg # NULL) =>
        \A g \in called \ {NULL, arg} :
            heap[g].path = heap[arg].path => result = first[g]

\* A call has returned for a description that shares its path with one
\* called before and differs from it in the other fields.
C9_Witness ==
    /\ pc = "done" /\ arg # NULL
    /\ \E g \in called \ {NULL, arg} :
          /\ heap[g].path = heap[arg].path
          /\ heap[g].other # heap[arg].other

====
